---- MODULE Spec2Model ----
(***************************************************************************)
(* sqldb::Table (include/Table.h): the schema, key type, filter and log    *)
(* a Table owns, the typed column constructors, the column lookups and the *)
(* append(other) row merge with its 4096-row transaction batches.          *)
(*                                                                         *)
(* Table is abstract.  The backend primitives it calls (addColumn, the     *)
(* schema getters, seekBegin, insert, begin, commit), the Cursor and the   *)
(* Log are modelled as a plain in-memory backend: a table is a list of     *)
(* sheets, a sheet a list of columns, the source table a list of rows.     *)
(* Column and sheet indices are 0-based as in the code; the sequences that *)
(* hold them are 1-based.                                                  *)
(***************************************************************************)
EXTENDS Integers, Sequences, FiniteSets, TLC

VARIABLES
  columns,      \* [table -> sequence of sheets, each a sequence of columns]
  key_type,     \* [table -> key_type_]
  filter,       \* [table -> filter_], a map column index -> key set
  log,          \* [table -> the records of *log_]
  rows,         \* the rows of `other`, in the order its cursor visits them
  numRows,      \* how many rows other's cursor visits (it cycles through `rows`)
  txn,          \* self's backend: begin() calls not yet matched by a commit()
  executed,     \* self's backend: rows materialized by execute()
  committed,    \* self's backend: rows made durable by commit()
  pc,           \* position inside append(), "idle" outside it
  cursor,       \* append: position of other's cursor (1-based), 0 when absent
  n,            \* append: rows in the current batch
  i,            \* append: field index of the bind loop
  my_cursor,    \* append: key of the open insert cursor, NoCursor when none
  appends,      \* how many times append() has been called
  numBegin,     \* begin() calls made by the current (or last) append
  numCommit,    \* commit() calls made by the current (or last) append
  recording,    \* whether self's backend records the calls it receives
  calls,        \* the calls the current (or last) append made on self, in order
  schemaCalls,  \* the setKeyType/addColumn calls Table's methods made on self, in order
  lastOp,       \* the last public operation called from outside, with its arguments
  ret,          \* what the last query returned: [index, indices, flag]
  lastSet       \* per column, the key set of the latest setFilter not yet cleared

tableVars  == <<columns, key_type, filter, log>>
sourceVars == <<rows, numRows>>
backendVars == <<txn, executed, committed>>
appendVars == <<pc, cursor, n, i, my_cursor, appends, numBegin, numCommit>>
traceVars  == <<recording, calls, schemaCalls>>
callVars   == <<lastOp, ret, lastSet>>
vars == <<columns, key_type, filter, log, rows, numRows, txn, executed, committed,
          pc, cursor, n, i, my_cursor, appends, numBegin, numCommit,
          recording, calls, schemaCalls, lastOp, ret, lastSet>>

(***************************************************************************)
(* Bounds of the model.                                                    *)
(***************************************************************************)
MaxCols    == 2   \* columns per sheet
MaxRows    == 2   \* rows of a small source table
MaxKey     == 2   \* keys are 1..MaxKey
MaxAppends == 2   \* append() calls in one behaviour

(***************************************************************************)
(* Program constants.                                                      *)
(***************************************************************************)
BatchSize == 4096

Tables   == {"self", "other"}
Keys     == 1..MaxKey
NoCursor == 0
Names    == {"a", "b"}

\* ColumnType, in the order the specification lists it.
TypeOrder ==
  << "BOOL", "ENUM", "INTEGER", "DATETIME", "DATE", "DOUBLE", "ANY", "TEXT", "URL",
     "TEXT_KEY", "BINARY_KEY", "CHAR", "VARCHAR", "BLOB", "VECTOR" >>
ColumnType == { TypeOrder[k] : k \in 1..Len(TypeOrder) }

Column(name, type, nullable, unique, decimals) ==
  [name |-> name, type |-> type, nullable |-> nullable, unique |-> unique,
   decimals |-> decimals]

(***************************************************************************)
(* Schema primitives: pure virtual in Table and answered by the backend,   *)
(* except getNumSheets and getColumnDecimals, which Table defines itself.  *)
(***************************************************************************)
\* Line 48: the default; a table inherits one sheet unless its backend says more.
getNumSheets(t) == 1

getNumFields(t, sheet) == Len(columns[t][sheet + 1])

getColumnName(t, idx, sheet) == columns[t][sheet + 1][idx + 1].name

getColumnType(t, idx, sheet) == columns[t][sheet + 1][idx + 1].type

isColumnNullable(t, idx, sheet) == columns[t][sheet + 1][idx + 1].nullable

isColumnUnique(t, idx, sheet) == columns[t][sheet + 1][idx + 1].unique

\* Line 54: the default; whatever decimals a column was added with, the table
\* reports 0 for it.
getColumnDecimals(t, idx) == 0

\* addColumn appends one column to the default sheet.
addColumn(cols, name, type, nullable, unique, decimals) ==
  [cols EXCEPT ![1] = Append(@, Column(name, type, nullable, unique, decimals))]

AddColumnCall(name, type, nullable, unique, decimals) ==
  [op |-> "addColumn", col |-> Column(name, type, nullable, unique, decimals),
   key_type |-> <<>>]

SetKeyTypeCall(kt) ==
  [op |-> "setKeyType", col |-> Column("", "ANY", FALSE, FALSE, 0), key_type |-> kt]

getKeyType(t) == key_type[t]

(***************************************************************************)
(* Operations called from outside, and their arguments.                    *)
(***************************************************************************)
DefaultNullable == TRUE
DefaultUnique   == FALSE
DefaultDecimals == -1

\* A query returns a column index, a list of column indices or a flag.
NoRet == [index |-> -1, indices |-> <<>>, flag |-> FALSE]

Op(op) ==
  [op |-> op, name |-> "", names |-> {}, type |-> "ANY", sheet |-> 0, col |-> 0,
   keys |-> {}, key_type |-> <<>>, nullable |-> DefaultNullable, unique |-> DefaultUnique,
   decimals |-> DefaultDecimals]

(***************************************************************************)
(* The source table's cursor (Cursor is an external collaborator).         *)
(* A row is [key, cells]; a cell is [null, v], v the stored content.  The  *)
(* typed accessors return the content as a value of their own type.        *)
(***************************************************************************)
SourceRow(p) == rows[((p - 1) % Len(rows)) + 1]

seekBegin == IF numRows = 0 THEN 0 ELSE 1

CursorHasNext == cursor + 1 <= numRows

CursorRowKey == SourceRow(cursor).key

CursorNumFields == getNumFields("other", 0)

CursorColumnType(idx) == getColumnType("other", idx, 0)

CursorCell(idx) == SourceRow(cursor).cells[idx + 1]

getInteger(cell) == [family |-> "integer", value |-> cell.v]

getDouble(cell) == [family |-> "double", value |-> cell.v]

getText(cell) == [family |-> "text", value |-> cell.v]

TextLiteral(str) == [family |-> "text", value |-> str]

(***************************************************************************)
(* The calls append() makes on self and on the insert cursor.              *)
(***************************************************************************)
Call(op) == [op |-> op, key |-> NoCursor, family |-> "none", value |-> "", present |-> FALSE]

InsertCall(key) == [Call("insert") EXCEPT !.key = key]

bind(typed, present) ==
  [Call("bind") EXCEPT !.family = typed.family, !.value = typed.value, !.present = present]

Record(trace, c) == IF recording THEN Append(trace, c) ELSE trace

(***************************************************************************)
(* append(), lines 60-114.                                                 *)
(***************************************************************************)
IntegerLike == {"BOOL", "ENUM", "INTEGER", "DATETIME", "DATE"}
Floating    == {"DOUBLE"}
TextLike    == {"ANY", "TEXT", "URL", "TEXT_KEY", "BINARY_KEY", "CHAR", "VARCHAR"}
Unbound     == {"BLOB", "VECTOR"}

\* Mutant: BLOB and VECTOR fields are transferred like text.
BindField_TransfersBlob(type, cell) ==
  LET is_null == cell.null IN
  CASE type \in IntegerLike -> bind(getInteger(cell), ~is_null)
    [] type \in Floating    -> bind(getDouble(cell), ~is_null)
    [] type \in TextLike \cup Unbound -> bind(getText(cell), ~is_null)

\* The switch of lines 76-102: the bind issued for one field.
BindField(type, cell) ==
  LET is_null == cell.null IN
  CASE type \in IntegerLike -> bind(getInteger(cell), ~is_null)
    [] type \in Floating    -> bind(getDouble(cell), ~is_null)
    [] type \in TextLike    -> bind(getText(cell), ~is_null)
    [] type \in Unbound     -> bind(TextLiteral(""), FALSE)

\* The addColumn call of line 66 for other's column idx.
CopyColumnCall(idx) ==
  AddColumnCall(getColumnName("other", idx, 0), getColumnType("other", idx, 0),
                isColumnNullable("other", idx, 0), isColumnUnique("other", idx, 0),
                getColumnDecimals("other", idx))

\* The loop of lines 65-67, from index idx on: the columns of self afterwards.
RECURSIVE CopyColumns(_, _)
CopyColumns(cols, idx) ==
  IF idx < getNumFields("other", 0)
  THEN LET c == CopyColumnCall(idx).col
       IN  CopyColumns(addColumn(cols, c.name, c.type, c.nullable, c.unique, c.decimals),
                       idx + 1)
  ELSE cols

\* The calls the bootstrap of lines 64-67 makes on self.
BootstrapCalls ==
  <<SetKeyTypeCall(getKeyType("other"))>>
    \o [k \in 1..getNumFields("other", 0) |-> CopyColumnCall(k - 1)]

\* Line 63: whether append copies other's schema.
Bootstrap == getNumFields("self", 0) = 0

\* Lines 60-68: entry of append and the schema bootstrap.
AppendStart ==
  /\ pc = "idle"
  /\ appends < MaxAppends
  /\ IF Bootstrap
     THEN /\ key_type' = [key_type EXCEPT !["self"] = getKeyType("other")]
          /\ columns' = [columns EXCEPT !["self"] = CopyColumns(columns["self"], 0)]
          /\ schemaCalls' = schemaCalls \o BootstrapCalls
     ELSE UNCHANGED <<key_type, columns, schemaCalls>>
  /\ pc' = "seek"
  /\ appends' = appends + 1
  /\ numBegin' = 0
  /\ numCommit' = 0
  /\ calls' = <<>>
  /\ lastOp' = Op("append")
  /\ UNCHANGED <<filter, log, rows, numRows, txn, executed, committed, cursor, n, i,
                 my_cursor, recording, ret, lastSet>>

\* Lines 70-71: other.seekBegin(); an absent cursor ends append.
SeekBegin ==
  /\ pc = "seek"
  /\ cursor' = seekBegin
  /\ n' = 0
  /\ pc' = IF seekBegin = 0 THEN "idle" ELSE "loop"
  /\ UNCHANGED <<tableVars, sourceVars, backendVars, i, my_cursor, appends, numBegin,
                 numCommit, traceVars, callVars>>

\* Mutant: begin() is called for every row.
LoopHead_BeginsEveryRow ==
  /\ pc = "loop"
  /\ txn' = txn + 1
  /\ numBegin' = numBegin + 1
  /\ calls' = Record(calls, Call("begin"))
  /\ pc' = "insert"
  /\ UNCHANGED <<tableVars, sourceVars, executed, committed, cursor, n, i, my_cursor,
                 appends, numCommit, recording, schemaCalls, callVars>>

\* Line 73: begin() opens a batch when n = 0.
LoopHead ==
  /\ pc = "loop"
  /\ IF n = 0
     THEN /\ txn' = txn + 1
          /\ numBegin' = numBegin + 1
          /\ calls' = Record(calls, Call("begin"))
     ELSE UNCHANGED <<txn, numBegin, calls>>
  /\ pc' = "insert"
  /\ UNCHANGED <<tableVars, sourceVars, executed, committed, cursor, n, i, my_cursor,
                 appends, numCommit, recording, schemaCalls, callVars>>

\* Mutant: every row is inserted under the key of the first source row.
InsertKey_First == SourceRow(1).key

\* Line 74: the key the destination row is inserted under.
InsertKey == CursorRowKey

\* Lines 74-75: my_cursor = insert(cursor->getRowKey()); i = 0.
Insert ==
  /\ pc = "insert"
  /\ my_cursor' = InsertKey
  /\ calls' = Record(calls, InsertCall(InsertKey))
  /\ i' = 0
  /\ pc' = "bind"
  /\ UNCHANGED <<tableVars, sourceVars, backendVars, cursor, n, appends, numBegin,
                 numCommit, recording, schemaCalls, callVars>>

\* Lines 75-103: one iteration of the field loop.
Bind ==
  /\ pc = "bind"
  /\ i < CursorNumFields
  /\ calls' = Record(calls, BindField(CursorColumnType(i), CursorCell(i)))
  /\ i' = i + 1
  /\ UNCHANGED <<tableVars, sourceVars, backendVars, pc, cursor, n, my_cursor, appends,
                 numBegin, numCommit, recording, schemaCalls, callVars>>

\* Line 104: my_cursor->execute() once the field loop is over.
Execute ==
  /\ pc = "bind"
  /\ ~(i < CursorNumFields)
  /\ executed' = executed + 1
  /\ calls' = Record(calls, Call("execute"))
  /\ pc' = "count"
  /\ UNCHANGED <<tableVars, sourceVars, txn, committed, cursor, n, i, my_cursor, appends,
                 numBegin, numCommit, recording, schemaCalls, callVars>>

\* Mutant: the batch is committed one row late.
BatchFull_OneLate(count) == count = BatchSize + 1

\* Line 105: whether the incremented row count closes the batch.
BatchFull(count) == count = BatchSize

\* Lines 105-108: ++n; a full batch is committed and n reset.
CountCommit ==
  /\ pc = "count"
  /\ IF BatchFull(n + 1)
     THEN /\ txn' = txn - 1
          /\ committed' = executed
          /\ numCommit' = numCommit + 1
          /\ calls' = Record(calls, Call("commit"))
          /\ n' = 0
     ELSE /\ n' = n + 1
          /\ UNCHANGED <<txn, committed, numCommit, calls>>
  /\ pc' = "next"
  /\ UNCHANGED <<tableVars, sourceVars, executed, cursor, i, my_cursor, appends,
                 numBegin, recording, schemaCalls, callVars>>

\* Line 109: the loop body ends, which destroys my_cursor (after the commit of
\* line 106, if any); then cursor->next(), and the loop continues while it
\* returns true.
CursorNext ==
  /\ pc = "next"
  /\ my_cursor' = NoCursor
  /\ IF CursorHasNext
     THEN cursor' = cursor + 1 /\ pc' = "loop"
     ELSE cursor' = cursor /\ pc' = "tail"
  /\ UNCHANGED <<tableVars, sourceVars, backendVars, n, i, appends, numBegin,
                 numCommit, traceVars, callVars>>

\* Line 110: if (n).
FinalCommitNeeded == n # 0

\* Line 110: the partial final batch is committed.
FinalCommit ==
  /\ pc = "tail"
  /\ IF FinalCommitNeeded
     THEN /\ txn' = txn - 1
          /\ committed' = executed
          /\ numCommit' = numCommit + 1
          /\ calls' = Record(calls, Call("commit"))
     ELSE UNCHANGED <<txn, committed, numCommit, calls>>
  /\ pc' = "log"
  /\ UNCHANGED <<tableVars, sourceVars, executed, cursor, n, i, my_cursor, appends,
                 numBegin, recording, schemaCalls, callVars>>

\* Mutant: the logs are appended the wrong way round.
LogAfterAppend_Reversed == [log EXCEPT !["other"] = @ \o log["self"]]

\* Line 112: getLog().append(other.getLog()).
LogAfterAppend == [log EXCEPT !["self"] = @ \o log["other"]]

\* Line 112, and the return of append.
LogAppend ==
  /\ pc = "log"
  /\ log' = LogAfterAppend
  /\ calls' = Record(calls, Call("logAppend"))
  /\ pc' = "idle"
  /\ cursor' = 0
  /\ UNCHANGED <<columns, key_type, filter, sourceVars, backendVars, n, i, my_cursor,
                 appends, numBegin, numCommit, recording, schemaCalls, callVars>>

AppendStep ==
  \/ SeekBegin \/ LoopHead \/ Insert \/ Bind \/ Execute
  \/ CountCommit \/ CursorNext \/ FinalCommit \/ LogAppend

(***************************************************************************)
(* Initial states.                                                         *)
(***************************************************************************)
\* The source's columns are drawn from one column per ColumnType.
SourceColumn(k) ==
  Column(IF k % 2 = 0 THEN "a" ELSE "b", TypeOrder[k], k % 2 = 0, k % 3 = 0,
         IF TypeOrder[k] = "DOUBLE" THEN 2 ELSE -1)

NumTypes == Len(TypeOrder)

\* Schemas of up to MaxCols consecutive (cyclically) source columns.
SourceSchemas ==
  { [j \in 1..len |-> SourceColumn(((s + j - 2) % NumTypes) + 1)] :
      s \in 1..NumTypes, len \in 0..MaxCols }

CellContent(k, idx) == "k" \o ToString(k) \o "c" \o ToString(idx)

MkRow(k, nulls, c) ==
  [key |-> k,
   cells |-> [j \in 1..c |-> [null |-> (j - 1) \in nulls, v |-> CellContent(k, j - 1)]]]

\* No field null, or every field of even index null.
NullMasks(c) == { {}, { j \in 0..(c - 1) : j % 2 = 0 } }

RowSet(c) == { MkRow(k, m, c) : k \in Keys, m \in NullMasks(c) }

SourceRows(c) == UNION { [1..r -> RowSet(c)] : r \in 0..MaxRows }

PresetColumns == << Column("p", "TEXT", TRUE, FALSE, -1) >>
PresetKeyType == << "TEXT" >>
SourceKeyType == << "INTEGER" >>

InitCommon ==
  /\ filter = [t \in Tables |-> <<>>]
  /\ log = [self |-> <<"s">>, other |-> <<"o">>]
  /\ txn = 0
  /\ executed = 0
  /\ committed = 0
  /\ pc = "idle"
  /\ cursor = 0
  /\ n = 0
  /\ i = 0
  /\ my_cursor = NoCursor
  /\ appends = 0
  /\ numBegin = 0
  /\ numCommit = 0
  /\ calls = <<>>
  /\ schemaCalls = <<>>
  /\ lastOp = Op("none")
  /\ ret = NoRet
  /\ lastSet = <<>>

\* A small source table of any schema and content; self empty or with a column.
Init ==
  /\ InitCommon
  /\ recording = TRUE
  /\ \E schema \in SourceSchemas, preset \in BOOLEAN :
       /\ columns = [self |-> << IF preset THEN PresetColumns ELSE <<>> >>,
                     other |-> << schema >>]
       /\ key_type = [self |-> IF preset THEN PresetKeyType ELSE <<>>,
                      other |-> SourceKeyType]
       /\ rows \in SourceRows(Len(schema))
  /\ numRows = Len(rows)

\* The key types a client sets.
KeyTypeArgs == { <<"DOUBLE", "INTEGER">> }

\* Line 182: setKeyType called by a client, outside append.
SetKeyType ==
  \E kt \in KeyTypeArgs :
    /\ pc = "idle"
    /\ key_type' = [key_type EXCEPT !["self"] = kt]
    /\ lastOp' = [Op("setKeyType") EXCEPT !.key_type = kt]
    /\ UNCHANGED <<columns, filter, log, sourceVars, backendVars, appendVars, traceVars,
                   ret, lastSet>>

Next == AppendStart \/ AppendStep \/ SetKeyType

Spec == Init /\ [][Next]_vars

\* Row counts around the batch size.
BatchRowCounts ==
  {0, 1, BatchSize - 1, BatchSize, BatchSize + 1, 2 * BatchSize, 2 * BatchSize + 1}

\* A source of one INTEGER column whose cursor visits numRows rows.
InitBatch ==
  /\ InitCommon
  /\ recording = FALSE
  /\ columns = [self |-> << <<>> >>, other |-> << <<SourceColumn(3)>> >>]
  /\ key_type = [self |-> <<>>, other |-> SourceKeyType]
  /\ numRows \in BatchRowCounts
  /\ rows = IF numRows = 0 THEN <<>> ELSE << MkRow(1, {}, 1), MkRow(2, {0}, 1) >>

SpecBatch == InitBatch /\ [][Next]_vars

(***************************************************************************)
(* Typed column constructors, lines 147-159: the addColumn call each makes.*)
(***************************************************************************)
addIntegerColumn(name, nullable, unique) ==
  AddColumnCall(name, "INTEGER", nullable, unique, DefaultDecimals)

addCharColumn(name) ==
  AddColumnCall(name, "CHAR", DefaultNullable, DefaultUnique, DefaultDecimals)

addDateTimeColumn(name) ==
  AddColumnCall(name, "DATETIME", DefaultNullable, DefaultUnique, DefaultDecimals)

addDateColumn(name) ==
  AddColumnCall(name, "DATE", DefaultNullable, DefaultUnique, DefaultDecimals)

\* Line 151 passes `unique` in the place of addColumn's `nullable` parameter.
addVarCharColumn(name, nullable, unique) ==
  AddColumnCall(name, "VARCHAR", unique, DefaultUnique, DefaultDecimals)

addTextColumn(name) ==
  AddColumnCall(name, "TEXT", DefaultNullable, DefaultUnique, DefaultDecimals)

addDoubleColumn(name, nullable, unique, decimals) ==
  AddColumnCall(name, "DOUBLE", nullable, unique, decimals)

addURLColumn(name) ==
  AddColumnCall(name, "URL", DefaultNullable, DefaultUnique, DefaultDecimals)

addTextKeyColumn(name) ==
  AddColumnCall(name, "TEXT_KEY", DefaultNullable, DefaultUnique, DefaultDecimals)

addBinaryKeyColumn(name) ==
  AddColumnCall(name, "BINARY_KEY", DefaultNullable, DefaultUnique, DefaultDecimals)

addEnumColumn(name) ==
  AddColumnCall(name, "ENUM", DefaultNullable, DefaultUnique, DefaultDecimals)

addBoolColumn(name, nullable, unique) ==
  AddColumnCall(name, "BOOL", nullable, unique, DefaultDecimals)

addBlobColumn(name) ==
  AddColumnCall(name, "BLOB", DefaultNullable, DefaultUnique, DefaultDecimals)

\* A constructor called as `op` makes the addColumn call `call` on self.
TypedColumn(op, call) ==
  /\ getNumFields("self", 0) < MaxCols
  /\ columns' = [columns EXCEPT !["self"] =
                   addColumn(@, call.col.name, call.col.type, call.col.nullable,
                             call.col.unique, call.col.decimals)]
  /\ schemaCalls' = Append(schemaCalls, call)
  /\ lastOp' = op
  /\ UNCHANGED <<key_type, filter, log, sourceVars, backendVars, appendVars, recording,
                 calls, ret, lastSet>>

DecimalsArgs == {DefaultDecimals, 2}

AddIntegerColumn ==
  \E name \in Names, nullable \in BOOLEAN, unique \in BOOLEAN :
    /\ pc = "idle"
    /\ TypedColumn([Op("addIntegerColumn") EXCEPT !.name = name, !.nullable = nullable,
                                                  !.unique = unique],
                   addIntegerColumn(name, nullable, unique))

AddCharColumn ==
  \E name \in Names :
    /\ pc = "idle"
    /\ TypedColumn([Op("addCharColumn") EXCEPT !.name = name], addCharColumn(name))

AddDateTimeColumn ==
  \E name \in Names :
    /\ pc = "idle"
    /\ TypedColumn([Op("addDateTimeColumn") EXCEPT !.name = name], addDateTimeColumn(name))

AddDateColumn ==
  \E name \in Names :
    /\ pc = "idle"
    /\ TypedColumn([Op("addDateColumn") EXCEPT !.name = name], addDateColumn(name))

AddVarCharColumn ==
  \E name \in Names, nullable \in BOOLEAN, unique \in BOOLEAN :
    /\ pc = "idle"
    /\ TypedColumn([Op("addVarCharColumn") EXCEPT !.name = name, !.nullable = nullable,
                                                  !.unique = unique],
                   addVarCharColumn(name, nullable, unique))

AddTextColumn ==
  \E name \in Names :
    /\ pc = "idle"
    /\ TypedColumn([Op("addTextColumn") EXCEPT !.name = name], addTextColumn(name))

AddDoubleColumn ==
  \E name \in Names, nullable \in BOOLEAN, unique \in BOOLEAN, decimals \in DecimalsArgs :
    /\ pc = "idle"
    /\ TypedColumn([Op("addDoubleColumn") EXCEPT !.name = name, !.nullable = nullable,
                                                 !.unique = unique, !.decimals = decimals],
                   addDoubleColumn(name, nullable, unique, decimals))

AddURLColumn ==
  \E name \in Names :
    /\ pc = "idle"
    /\ TypedColumn([Op("addURLColumn") EXCEPT !.name = name], addURLColumn(name))

AddTextKeyColumn ==
  \E name \in Names :
    /\ pc = "idle"
    /\ TypedColumn([Op("addTextKeyColumn") EXCEPT !.name = name], addTextKeyColumn(name))

AddBinaryKeyColumn ==
  \E name \in Names :
    /\ pc = "idle"
    /\ TypedColumn([Op("addBinaryKeyColumn") EXCEPT !.name = name], addBinaryKeyColumn(name))

AddEnumColumn ==
  \E name \in Names :
    /\ pc = "idle"
    /\ TypedColumn([Op("addEnumColumn") EXCEPT !.name = name], addEnumColumn(name))

AddBoolColumn ==
  \E name \in Names, nullable \in BOOLEAN, unique \in BOOLEAN :
    /\ pc = "idle"
    /\ TypedColumn([Op("addBoolColumn") EXCEPT !.name = name, !.nullable = nullable,
                                               !.unique = unique],
                   addBoolColumn(name, nullable, unique))

AddBlobColumn ==
  \E name \in Names :
    /\ pc = "idle"
    /\ TypedColumn([Op("addBlobColumn") EXCEPT !.name = name], addBlobColumn(name))

NextColumns ==
  \/ AddIntegerColumn \/ AddCharColumn \/ AddDateTimeColumn \/ AddDateColumn
  \/ AddVarCharColumn \/ AddTextColumn \/ AddDoubleColumn \/ AddURLColumn
  \/ AddTextKeyColumn \/ AddBinaryKeyColumn \/ AddEnumColumn \/ AddBoolColumn
  \/ AddBlobColumn \/ SetKeyType

\* Two tables just constructed: no columns, no key type.
InitColumns ==
  /\ InitCommon
  /\ recording = TRUE
  /\ columns = [t \in Tables |-> << <<>> >>]
  /\ key_type = [t \in Tables |-> <<>>]
  /\ rows = <<>>
  /\ numRows = 0

SpecColumns == InitColumns /\ [][NextColumns]_vars

(***************************************************************************)
(* Column lookups, lines 116-145.                                          *)
(***************************************************************************)
\* Line 117-119, from index idx downwards.
RECURSIVE ScanByNames(_, _, _)
ScanByNames(names, sheet, idx) ==
  IF idx >= 0
  THEN IF getColumnName("self", idx, sheet) \in names
       THEN idx
       ELSE ScanByNames(names, sheet, idx - 1)
  ELSE -1

getColumnByNames(names, sheet) ==
  ScanByNames(names, sheet, getNumFields("self", sheet) - 1)

\* Mutant: the scan runs from the lowest index upwards (first-added column wins).
RECURSIVE ScanByName_Upwards(_, _, _)
ScanByName_Upwards(name, sheet, idx) ==
  LET up == getNumFields("self", sheet) - 1 - idx
  IN  IF idx >= 0
      THEN IF getColumnName("self", up, sheet) = name
           THEN up
           ELSE ScanByName_Upwards(name, sheet, idx - 1)
      ELSE -1

\* Lines 124-127, from index idx downwards.
RECURSIVE ScanByName(_, _, _)
ScanByName(name, sheet, idx) ==
  IF idx >= 0
  THEN IF getColumnName("self", idx, sheet) = name
       THEN idx
       ELSE ScanByName(name, sheet, idx - 1)
  ELSE -1

getColumnByName(name, sheet) ==
  ScanByName(name, sheet, getNumFields("self", sheet) - 1)

\* Lines 131-134, from index idx upwards.
RECURSIVE ScanByType(_, _, _)
ScanByType(type, sheet, idx) ==
  IF idx < getNumFields("self", sheet)
  THEN IF getColumnType("self", idx, sheet) = type
       THEN idx
       ELSE ScanByType(type, sheet, idx + 1)
  ELSE -1

getColumnByType(type, sheet) == ScanByType(type, sheet, 0)

\* Lines 139-143, from index idx downwards; line 140 reads the name of column
\* idx through getColumnName(i), that is from the default sheet 0.
RECURSIVE CollectByNames(_, _, _, _)
CollectByNames(names, sheet, idx, r) ==
  IF idx >= 0
  THEN CollectByNames(names, sheet, idx - 1,
                      IF getColumnName("self", idx, 0) \in names THEN Append(r, idx) ELSE r)
  ELSE r

getColumnsByNames(names, sheet) ==
  CollectByNames(names, sheet, getNumFields("self", sheet) - 1, <<>>)

\* The lookups take any sheet index the backend holds columns for.
Sheets      == 0..(Len(columns["self"]) - 1)
LookupNames == Names \cup {"z"}
LookupTypes == {"INTEGER", "TEXT", "BLOB"}

Lookup(op, value) ==
  /\ lastOp' = op
  /\ ret' = value
  /\ UNCHANGED <<tableVars, sourceVars, backendVars, appendVars, traceVars, lastSet>>

GetColumnByNames ==
  \E names \in SUBSET LookupNames, sheet \in Sheets :
    /\ pc = "idle"
    /\ Lookup([Op("getColumnByNames") EXCEPT !.names = names, !.sheet = sheet],
              [NoRet EXCEPT !.index = getColumnByNames(names, sheet)])

GetColumnByName ==
  \E name \in LookupNames, sheet \in Sheets :
    /\ pc = "idle"
    /\ Lookup([Op("getColumnByName") EXCEPT !.name = name, !.sheet = sheet],
              [NoRet EXCEPT !.index = getColumnByName(name, sheet)])

GetColumnByType ==
  \E type \in LookupTypes, sheet \in Sheets :
    /\ pc = "idle"
    /\ Lookup([Op("getColumnByType") EXCEPT !.type = type, !.sheet = sheet],
              [NoRet EXCEPT !.index = getColumnByType(type, sheet)])

GetColumnsByNames ==
  \E names \in SUBSET LookupNames, sheet \in Sheets :
    /\ pc = "idle"
    /\ Lookup([Op("getColumnsByNames") EXCEPT !.names = names, !.sheet = sheet],
              [NoRet EXCEPT !.indices = getColumnsByNames(names, sheet)])

NextLookup ==
  GetColumnByNames \/ GetColumnByName \/ GetColumnByType \/ GetColumnsByNames

\* The sheets a backend may hold: up to MaxCols columns of any name.
SheetSchemas ==
  UNION { [1..len -> { Column(nm, ty, DefaultNullable, DefaultUnique, DefaultDecimals) :
                         nm \in Names, ty \in {"INTEGER", "TEXT"} }] : len \in 0..MaxCols }

\* self is a table of two sheets, each of any schema; the second sheet has no
\* more columns than the default sheet, so that every column index of a sheet
\* is also a column index of the default sheet.
InitLookup ==
  /\ InitCommon
  /\ recording = TRUE
  /\ \E s0 \in SheetSchemas, s1 \in SheetSchemas :
       /\ Len(s1) <= Len(s0)
       /\ columns = [self |-> <<s0, s1>>, other |-> << <<>> >>]
  /\ key_type = [t \in Tables |-> <<>>]
  /\ rows = <<>>
  /\ numRows = 0

SpecLookup == InitLookup /\ [][NextLookup]_vars

(***************************************************************************)
(* Filters, lines 185-196.                                                 *)
(***************************************************************************)
hasFilter(col) == col \in DOMAIN filter["self"]

\* filter_.erase(col)
Erase(map, col) == [c \in DOMAIN map \ {col} |-> map[c]]

\* filter_.emplace(col, keys): inserts only when col has no entry yet.
Emplace(map, col, keys) == IF col \in DOMAIN map THEN map ELSE (col :> keys) @@ map

\* The entry of col set to keys, whatever was there.
Assign(map, col, keys) == (col :> keys) @@ map

FilterCols == {0, 1}

HasFilter ==
  \E col \in FilterCols :
    /\ pc = "idle"
    /\ lastOp' = [Op("hasFilter") EXCEPT !.col = col]
    /\ ret' = [NoRet EXCEPT !.flag = hasFilter(col)]
    /\ UNCHANGED <<tableVars, sourceVars, backendVars, appendVars, traceVars, lastSet>>

ClearFilter ==
  \E col \in FilterCols :
    /\ pc = "idle"
    /\ filter' = [filter EXCEPT !["self"] = Erase(@, col)]
    /\ lastSet' = Erase(lastSet, col)
    /\ lastOp' = [Op("clearFilter") EXCEPT !.col = col]
    /\ UNCHANGED <<columns, key_type, log, sourceVars, backendVars, appendVars,
                   traceVars, ret>>

SetFilter ==
  \E col \in FilterCols, keys \in SUBSET Keys :
    /\ pc = "idle"
    /\ filter' = [filter EXCEPT !["self"] = Emplace(@, col, keys)]
    /\ lastSet' = Assign(lastSet, col, keys)
    /\ lastOp' = [Op("setFilter") EXCEPT !.col = col, !.keys = keys]
    /\ UNCHANGED <<columns, key_type, log, sourceVars, backendVars, appendVars,
                   traceVars, ret>>

NextFilter == HasFilter \/ ClearFilter \/ SetFilter

\* self has two columns and no filter.
InitFilter ==
  /\ InitCommon
  /\ recording = TRUE
  /\ columns = [self |-> << <<Column("a", "INTEGER", TRUE, FALSE, -1),
                              Column("b", "TEXT", TRUE, FALSE, -1)>> >>,
                other |-> << <<>> >>]
  /\ key_type = [t \in Tables |-> <<"INTEGER">>]
  /\ rows = <<>>
  /\ numRows = 0

SpecFilter == InitFilter /\ [][NextFilter]_vars

(***************************************************************************)
(* Properties.                                                             *)
(***************************************************************************)
CeilDiv(a, b) == (a + b - 1) \div b

Returned == pc = "idle" /\ appends > 0

\* C1: when append returns after a traversal of R rows it has called commit()
\* ceil(R / 4096) times and begin() as many times: none for an empty source, one
\* for 1 row and for 4096 rows, two for 4097 rows.
C1_CommitsPerAppend ==
  Returned =>
    /\ numCommit = CeilDiv(numRows, BatchSize)
    /\ numBegin = CeilDiv(numRows, BatchSize)
    /\ (numRows = 0 => numBegin = 0 /\ numCommit = 0)
    /\ (numRows \in {1, BatchSize} => numCommit = 1)
    /\ (numRows = BatchSize + 1 => numCommit = 2)

C1_Witness == Returned /\ numRows = BatchSize + 1 /\ numCommit = 2 /\ numBegin = 2

\* C9: begin() and commit() alternate starting with begin, rows are inserted,
\* bound and executed only inside an open begin, at most 4096 rows are executed
\* and not yet committed, outside a begin every executed row is committed, and
\* no begin is left open when append returns.
C9_BatchBracketing ==
  /\ txn \in {0, 1}
  /\ numBegin - numCommit = txn
  /\ (pc \in {"insert", "bind"} => txn = 1)
  /\ (pc = "bind" => my_cursor # NoCursor)
  /\ executed - committed >= 0
  /\ executed - committed <= BatchSize
  /\ (txn = 0 => executed = committed)
  /\ (pc = "idle" => txn = 0)

C9_Witness ==
  /\ txn = 1
  /\ executed - committed = BatchSize
  /\ committed >= BatchSize

(***************************************************************************)
(* The calls of one append, projected.                                     *)
(***************************************************************************)
IsPrefix(s, t) == Len(s) <= Len(t) /\ \A k \in 1..Len(s) : s[k] = t[k]

IsRowCall(c) == c.op \in {"insert", "bind", "execute"}

IsInsert(c) == c.op = "insert"

IsBind(c) == c.op = "bind"

OpAndKey(trace) == [k \in 1..Len(trace) |-> <<trace[k].op, trace[k].key>>]

NumSourceFields == Len(columns["other"][1])

\* insert(key of row p), one bind per field, execute.
RowPattern(p) ==
  << <<"insert", rows[p].key>> >>
    \o [j \in 1..NumSourceFields |-> <<"bind", NoCursor>>]
    \o << <<"execute", NoCursor>> >>

RECURSIVE RowPatterns(_)
RowPatterns(p) == IF p > Len(rows) THEN <<>> ELSE RowPattern(p) \o RowPatterns(p + 1)

InsertedKeys == [k \in 1..Len(SelectSeq(calls, IsInsert)) |-> SelectSeq(calls, IsInsert)[k].key]

SourceKeys == [p \in 1..Len(rows) |-> rows[p].key]

\* C4: the keys append passes to insert() are the source rows' keys in traversal
\* order, and per source row there is one insert, then its binds, then one
\* execute before the next row's insert; no row is skipped or repeated.
C4_RowsInSourceOrder ==
  /\ IsPrefix(OpAndKey(SelectSeq(calls, IsRowCall)), RowPatterns(1))
  /\ IsPrefix(InsertedKeys, SourceKeys)
  /\ (Returned => /\ OpAndKey(SelectSeq(calls, IsRowCall)) = RowPatterns(1)
                  /\ InsertedKeys = SourceKeys)

C4_Witness ==
  /\ Returned
  /\ Len(rows) >= 2
  /\ rows[1].key > rows[2].key
  /\ NumSourceFields >= 1
  /\ InsertedKeys = SourceKeys

\* What the bind for a field of the given type and cell must carry.
BindMatches(c, type, cell) ==
  IF type \in {"BLOB", "VECTOR"}
  THEN c.present = FALSE
  ELSE /\ c.present = ~cell.null
       /\ c.value = cell.v
       /\ c.family = CASE type \in {"BOOL", "ENUM", "INTEGER", "DATETIME", "DATE"} -> "integer"
                       [] type = "DOUBLE" -> "double"
                       [] OTHER -> "text"

Binds == SelectSeq(calls, IsBind)

\* C5: every field of every copied row gets exactly one bind, in ascending field
\* order; a BLOB or VECTOR field is bound absent whatever the source holds, any
\* other field is bound present iff the source field is not null, with the value
\* read through the accessor of its type's family.
C5_BindPerField ==
  /\ Len(Binds) <= Len(rows) * NumSourceFields
  /\ (Returned => Len(Binds) = Len(rows) * NumSourceFields)
  /\ (pc \in {"bind"} => Len(Binds) = (cursor - 1) * NumSourceFields + i)
  /\ \A k \in 1..Len(Binds) :
       LET p   == ((k - 1) \div NumSourceFields) + 1
           idx == (k - 1) % NumSourceFields
       IN  BindMatches(Binds[k], columns["other"][1][idx + 1].type, rows[p].cells[idx + 1])

C5_Witness ==
  /\ Returned
  /\ Len(rows) >= 1
  /\ \E idx \in 1..NumSourceFields :
       /\ columns["other"][1][idx].type \in {"BLOB", "VECTOR"}
       /\ ~rows[1].cells[idx].null
       /\ Binds[idx].present = FALSE
  /\ \E idx \in 1..NumSourceFields :
       /\ columns["other"][1][idx].type \notin {"BLOB", "VECTOR"}
       /\ Binds[idx].present

\* The setKeyType and addColumn calls that replicate other's schema.
SchemaCopyCalls ==
  << SetKeyTypeCall(key_type["other"]) >>
    \o [k \in 1..Len(columns["other"][1]) |->
          [op |-> "addColumn", col |-> columns["other"][1][k], key_type |-> <<>>]]

\* C3: append on a table without columns sets its key type to other's and adds
\* other's columns (name, type, nullable, unique and decimals as other was given
\* them), one addColumn call each, in order, whether or not other has rows;
\* append on a table with columns makes no setKeyType or addColumn call and
\* leaves schema and key type as they are.
C3_SchemaBootstrap ==
  [][ /\ (pc = "idle" /\ pc' # "idle") =>
            IF Len(columns["self"][1]) = 0
            THEN /\ key_type'["self"] = key_type["other"]
                 /\ columns'["self"][1] = columns["other"][1]
                 /\ schemaCalls' = schemaCalls \o SchemaCopyCalls
            ELSE UNCHANGED <<columns, key_type, schemaCalls>>
      /\ (pc # "idle" => UNCHANGED <<columns, key_type, schemaCalls>>)
    ]_vars

\* A column list with every decimals replaced by d.
WithDecimals(cols, d) == [k \in 1..Len(cols) |-> [cols[k] EXCEPT !.decimals = d]]

\* What the bootstrap does get right: key type, and name, type, nullable and
\* unique of every column, one addColumn call each, in order; and no schema call
\* on a table with columns.  The decimals of every copied column are 0.
SchemaBootstrapButDecimals ==
  [][ /\ (pc = "idle" /\ pc' # "idle") =>
            IF Len(columns["self"][1]) = 0
            THEN /\ key_type'["self"] = key_type["other"]
                 /\ columns'["self"][1] = WithDecimals(columns["other"][1], 0)
                 /\ Len(schemaCalls') = Len(schemaCalls) + 1 + Len(columns["other"][1])
                 /\ schemaCalls'[Len(schemaCalls) + 1] = SetKeyTypeCall(key_type["other"])
                 /\ \A k \in 1..Len(columns["other"][1]) :
                      /\ schemaCalls'[Len(schemaCalls) + 1 + k].op = "addColumn"
                      /\ schemaCalls'[Len(schemaCalls) + 1 + k].col = columns'["self"][1][k]
            ELSE UNCHANGED <<columns, key_type, schemaCalls>>
      /\ (pc # "idle" => UNCHANGED <<columns, key_type, schemaCalls>>)
    ]_vars

\* Two appends of an empty two-column source onto a table without columns.
SchemaBootstrapReached ==
  /\ Returned
  /\ appends = 2
  /\ numRows = 0
  /\ Len(columns["self"][1]) >= 2
  /\ columns["self"][1] = WithDecimals(columns["other"][1], 0)
  /\ columns["self"][1] # columns["other"][1]
  /\ key_type["self"] = key_type["other"]

\* C10: append appends other's log onto self's log once, as its last step after
\* the final commit, and only when other has a row; with an empty source self's
\* log stays as it is; other's log and rows are never changed.
C10_LogAppendedOnce ==
  /\ [](/\ (pc = "log" => numRows > 0 /\ txn = 0 /\ executed = committed
                          /\ numCommit = CeilDiv(numRows, BatchSize))
        /\ (Returned /\ numRows > 0 =>
              /\ calls[Len(calls)].op = "logAppend"
              /\ calls[Len(calls) - 1].op = "commit"
              /\ Len(SelectSeq(calls, LAMBDA c : c.op = "logAppend")) = 1)
        /\ (Returned /\ numRows = 0 => calls = <<>>))
  /\ [][ /\ log'["other"] = log["other"]
         /\ rows' = rows
         /\ numRows' = numRows
         /\ (pc = "log" => log'["self"] = log["self"] \o log["other"] /\ pc' = "idle")
         /\ (pc # "log" => log'["self"] = log["self"])
         /\ (pc # "idle" /\ pc' = "idle" /\ numRows > 0 => pc = "log")
       ]_vars

C10_Witness ==
  /\ Returned
  /\ appends = 2
  /\ numRows > 0
  /\ log["self"] = <<"s", "o", "o">>
  /\ log["other"] = <<"o">>

Max(S) == CHOOSE x \in S : \A y \in S : y <= x

\* The indices of the sheet's columns whose name is in names.
Matching(names, sheet) ==
  { idx \in 0..(Len(columns["self"][sheet + 1]) - 1) :
      columns["self"][sheet + 1][idx + 1].name \in names }

\* C6: getColumnByName(name, sheet) returns the highest index of the sheet whose
\* column is called name, -1 iff there is none, and changes nothing of the table.
C6_LastAddedWins ==
  [][ lastOp'.op = "getColumnByName" =>
        /\ UNCHANGED <<columns, key_type, filter, log>>
        /\ ret'.index = IF Matching({lastOp'.name}, lastOp'.sheet) = {}
                        THEN -1
                        ELSE Max(Matching({lastOp'.name}, lastOp'.sheet))
    ]_vars

C6_Witness ==
  /\ lastOp.op = "getColumnByName"
  /\ lastOp.sheet = 1
  /\ Cardinality(Matching({lastOp.name}, 1)) >= 2
  /\ ret.index = Max(Matching({lastOp.name}, 1))
  /\ ret.index >= 1

\* C7: getColumnsByNames(names, sheet) returns the indices of that sheet's
\* columns whose name is in names, in descending order, and its first element is
\* what getColumnByNames(names, sheet) returns.
C7_AllMatchesOfSheet ==
  lastOp.op = "getColumnsByNames" =>
    LET r == ret.indices
    IN  /\ { r[k] : k \in 1..Len(r) } = Matching(lastOp.names, lastOp.sheet)
        /\ \A k \in 1..(Len(r) - 1) : r[k] > r[k + 1]
        /\ (Len(r) > 0 => r[1] = getColumnByNames(lastOp.names, lastOp.sheet))

FlaggedConstructors ==
  [addIntegerColumn |-> "INTEGER", addVarCharColumn |-> "VARCHAR",
   addDoubleColumn |-> "DOUBLE", addBoolColumn |-> "BOOL"]

\* C8: a typed constructor taking nullable and unique makes one addColumn call
\* with its fixed type and the caller's nullable and unique.
C8_FlagsForwarded ==
  lastOp.op \in DOMAIN FlaggedConstructors =>
    /\ Len(schemaCalls) = Len(columns["self"][1])
    /\ LET c == schemaCalls[Len(schemaCalls)]
       IN  /\ c.op = "addColumn"
           /\ c.col = columns["self"][1][Len(columns["self"][1])]
           /\ c.col.name = lastOp.name
           /\ c.col.type = FlaggedConstructors[lastOp.op]
           /\ c.col.nullable = lastOp.nullable
           /\ c.col.unique = lastOp.unique

\* C2: the filter of a column is the key set of the latest setFilter on it that
\* no clearFilter followed; a second setFilter replaces the first set.
C2_FilterIsLatestSet ==
  /\ DOMAIN filter["self"] = DOMAIN lastSet
  /\ \A col \in DOMAIN lastSet : filter["self"][col] = lastSet[col]

====
